---- MODULE Spec2Model ----
(***************************************************************************)
(* Model of sem_python's FEMAssembly (sem_python/assembly/FEMAssembly.py): *)
(* construction of the kernel and auxiliary lists, the steady-state        *)
(* volumetric assembly, the mass matrix, the transient system and the      *)
(* application of strong constraints.                                      *)
(*                                                                         *)
(* Python lists are sequences (position 1 of a sequence is index 0 of the  *)
(* list); cells, phases, local nodes, quadrature points and DOF indices    *)
(* keep the source's 0-based numbering.  A dict is a function whose        *)
(* domain is its key set.  numpy arrays are functions over 0..n-1.         *)
(***************************************************************************)
EXTENDS Integers, Sequences, FiniteSets, TLC

VARIABLES
  model_type,               \* self.model_type
  group_fem,                \* self.group_fem
  lump_mass_matrix,         \* self.lump_mass_matrix
  need_solution_gradients,  \* self.need_solution_gradients
  aux_list,                 \* self.aux_list
  nodal_aux_list,           \* self.nodal_aux_list
  group_fem_interp_aux_list,\* self.group_fem_interp_aux_list
  fem_kernels,              \* self.fem_kernels
  bcs,                      \* self.bcs
  junctions,                \* self.junctions
  phi,                      \* fe_values.get_phi(): phi[k][q]
  JxW,                      \* fe_values.get_JxW(e): JxW[e][q]
  M,                        \* self.M (NoMatrix before performTransientSetup)
  pc,                       \* position inside assembleSteadyStateSystemWithoutConstraints
  elem,                     \* loop variable of addVolumetricTerms
  n_call,                   \* number of steady-state assembly calls started
  data,                     \* addVolumetricTerms: data (the data argument of a compute
                            \* called directly)
  der,                      \* addVolumetricTerms: der (the der argument of a compute
                            \* called directly)
  nodal_data,               \* addVolumetricTerms: nodal_data
  nodal_der,                \* addVolumetricTerms: nodal_der
  node_data,                \* the dict a caller hands to computeLocalNodeSolution
  rJ,                       \* what has been accumulated into (r, J), in order
  rJ_cell,                  \* what has been accumulated into (r_cell, J_cell), in order
  calls,                    \* collaborator operations invoked by the current/last entry point
  entry,                    \* the current/last entry point
  A,                        \* the caller's own matrix (NoMatrix when it holds none)
  A_ref,                    \* the matrix the caller holds: "none", "self.M" (the object
                            \* assembleTransientSystem returned) or "own"
  b,                        \* the caller's vector argument
  M_dU,                     \* vector returned by the last assembleTransientSystem
  dU,                       \* U - U_old of the last assembleTransientSystem
  raised,                   \* the exception propagating out of the entry point or of a
                            \* compute called directly (NoError if none)
  test_aux                  \* the auxiliary a caller computes directly (NoAux if none)

vars == <<model_type, group_fem, lump_mass_matrix, need_solution_gradients,
          aux_list, nodal_aux_list, group_fem_interp_aux_list, fem_kernels,
          bcs, junctions, phi, JxW, M, pc, elem, n_call, data, der,
          nodal_data, nodal_der, node_data, rJ, rJ_cell, calls, entry, A, A_ref, b,
          M_dU, dU, raised, test_aux>>

config_vars == <<model_type, group_fem, lump_mass_matrix, need_solution_gradients,
                 aux_list, nodal_aux_list, group_fem_interp_aux_list, fem_kernels,
                 bcs, junctions, phi, JxW>>

steady_vars == <<pc, elem, n_call, data, der, nodal_data, nodal_der, rJ, rJ_cell>>

matrix_vars == <<M, A, A_ref, b, M_dU, dU>>

-----------------------------------------------------------------------------
(* Bounds of the model *)

\* number of cells of the (single) mesh: dof_handler.n_cell
NCell == 2
\* number of quadrature points: quadrature.n_q
NQuad == 2
\* longest list of boundary conditions and longest list of junctions
MaxConstraints == 2
\* number of steady-state assembly calls explored
MaxCalls == 2
\* largest shape-function value and largest JxW value drawn
MaxWeight == 2

-----------------------------------------------------------------------------
(* Generic helpers *)

Range(s) == {s[i] : i \in 1..Len(s)}

RECURSIVE Concat(_)
\* concatenation of a sequence of sequences
Concat(ss) == IF ss = <<>> THEN <<>> ELSE Head(ss) \o Concat(Tail(ss))

\* [f(x) for x in s]
Map(f(_), s) == [i \in 1..Len(s) |-> f(s[i])]

\* str(phase + 1)
phase_str(phase) == IF phase = 0 THEN "1" ELSE "2"

EmptyDict == [k \in {} |-> 0]

\* no exception is propagating
NoError == <<>>

\* no auxiliary is computed directly
NoAux == [kind |-> "none"]

\* d[k] = v for every k in keys
WriteKeys(d, keys, v) == [k \in (DOMAIN d) \cup keys |-> IF k \in keys THEN v ELSE d[k]]

-----------------------------------------------------------------------------
(* The model (self.model) and the stabilization: constructor parameters *)

ModelTypes == {"OnePhase", "TwoPhaseNonInteracting", "TwoPhase"}

\* self.model.phases
phases(mt) == IF mt = "OnePhase" THEN <<0>> ELSE <<0, 1>>

\* self.model.phase_interaction
phase_interaction(mt) == mt = "TwoPhase"

Kernel(name, phase, var_enum, aux_name) ==
  [name |-> name, phase |-> phase, var_enum |-> var_enum, aux_name |-> aux_name]

Aux(name, dependencies) == [name |-> name, dependencies |-> dependencies]

\* the stabilization parameter: needSolutionGradients(), createAuxQuantities(),
\* createKernels()
Stabilizations ==
  { [needSolutionGradients |-> FALSE, aux |-> <<>>, kernels |-> <<>>],
    [needSolutionGradients |-> TRUE,
     aux |-> <<Aux("visccoef_arhoA1", <<>>)>>,
     kernels |-> <<Kernel("DissipationVariableGradient", 0, "ARhoA", "")>>] }

\* self.source_kernels of the Assembly base class
SourceKernelLists == { <<Kernel("MomentumGravity", 0, "", "")>> }

\* self.aux_list of the Assembly base class: the closures of every phase
BaseAuxOfPhase(phase) ==
  LET s == phase_str(phase) IN
  << Aux("v" \o s, <<>>), Aux("e" \o s, <<>>), Aux("p" \o s, <<>>), Aux("c" \o s, <<>>) >>

BaseAuxList(mt) == Concat(Map(BaseAuxOfPhase, phases(mt)))

-----------------------------------------------------------------------------
(* FEMAssembly.__init__ and the list builders *)

createNodalAuxOfPhase(phase) ==
  LET s == phase_str(phase) IN
  << Aux("inviscflux_arhoA" \o s, <<>>),
     Aux("inviscflux_arhouA" \o s, <<>>),
     Aux("inviscflux_arhoEA" \o s, <<>>) >>

createNodalAuxQuantities(mt) == Concat(Map(createNodalAuxOfPhase, phases(mt)))

createInterpolatedAuxOfPhase(phase) ==
  LET s      == phase_str(phase)
      arhoA  == "arhoA" \o s
      arhouA == "arhouA" \o s
      arhoEA == "arhoEA" \o s
  IN << Aux("inviscflux_arhoA" \o s, <<arhouA>>),
        Aux("inviscflux_arhouA" \o s, <<"aA1", arhoA, arhouA, arhoEA>>),
        Aux("inviscflux_arhoEA" \o s, <<"aA1", arhoA, arhouA, arhoEA>>) >>

createInterpolatedAux(mt) == Concat(Map(createInterpolatedAuxOfPhase, phases(mt)))

\* InterpolatedAdvection kernels whose aux_name leaves the phase suffix out
InterpolatedAdvectionKernelsUnsuffixed(phase) ==
  << Kernel("InterpolatedAdvection", phase, "ARhoA", "inviscflux_arhoA"),
     Kernel("InterpolatedAdvection", phase, "ARhoUA", "inviscflux_arhouA"),
     Kernel("InterpolatedAdvection", phase, "ARhoEA", "inviscflux_arhoEA") >>

InterpolatedAdvectionKernels(phase) ==
  LET s == phase_str(phase) IN
  << Kernel("InterpolatedAdvection", phase, "ARhoA", "inviscflux_arhoA" \o s),
     Kernel("InterpolatedAdvection", phase, "ARhoUA", "inviscflux_arhouA" \o s),
     Kernel("InterpolatedAdvection", phase, "ARhoEA", "inviscflux_arhoEA" \o s) >>

DirectAdvectionKernels(phase) ==
  << Kernel("MassAdvection", phase, "", ""),
     Kernel("MomentumAdvection", phase, "", ""),
     Kernel("MomentumAreaGradient", phase, "", ""),
     Kernel("EnergyAdvection", phase, "", "") >>

PhaseInteractionKernels ==
  << Kernel("VolumeFractionAdvection", 0, "", ""),
     Kernel("MomentumVolumeFractionGradient", 0, "", ""),
     Kernel("MomentumVolumeFractionGradient", 1, "", ""),
     Kernel("EnergyVolumeFractionGradient", 0, "", ""),
     Kernel("EnergyVolumeFractionGradient", 1, "", "") >>

\* a builder that adds the phase-interaction kernels whatever the model declares
createAdvectionKernelsAlwaysInteraction(mt, gf) ==
  LET OfPhase(phase) == IF gf THEN InterpolatedAdvectionKernels(phase)
                              ELSE DirectAdvectionKernels(phase)
  IN Concat(Map(OfPhase, phases(mt))) \o PhaseInteractionKernels

createAdvectionKernels(mt, gf) ==
  LET OfPhase(phase) == IF gf THEN InterpolatedAdvectionKernels(phase)
                              ELSE DirectAdvectionKernels(phase)
  IN Concat(Map(OfPhase, phases(mt)))
       \o (IF phase_interaction(mt) THEN PhaseInteractionKernels ELSE <<>>)

Name(aux) == aux.name

\* self.aux_names, self.nodal_aux_names, self.group_fem_aux_names
aux_names == Map(Name, aux_list)
nodal_aux_names == Map(Name, nodal_aux_list)
group_fem_aux_names == Map(Name, group_fem_interp_aux_list)

-----------------------------------------------------------------------------
(* Boundary conditions and junctions: each constrains one DOF; a strong one *)
(* replaces that DOF's row/value, a weak one adds to it                     *)

n_var(mt) == CASE mt = "OnePhase" -> 3
               [] mt = "TwoPhaseNonInteracting" -> 6
               [] OTHER -> 7

n_dof_per_cell_per_var == 2

n_node == NCell * (n_dof_per_cell_per_var - 1) + 1

n_dof(mt) == n_node * n_var(mt)

n_dof_per_cell(mt) == n_dof_per_cell_per_var * n_var(mt)

DOFs(mt) == 0 .. n_dof(mt) - 1

\* the DOFs boundary conditions and junctions constrain: the first DOF of the
\* first node and the first DOF of the last node
ConstrainedDOFs(mt) == {0, (n_node - 1) * n_var(mt)}

RECURSIVE ListsUpTo(_, _)
\* the lists of at most n elements of S
ListsUpTo(S, n) ==
  IF n = 0 THEN {<<>>}
  ELSE LET shorter == ListsUpTo(S, n - 1)
       IN shorter \cup {Append(l, x) : l \in {s \in shorter : Len(s) = n - 1}, x \in S}

-----------------------------------------------------------------------------
(* Local solution extraction: the quantity names each operation writes *)

ConservedNames(phase) ==
  LET s == phase_str(phase) IN {"arhoA" \o s, "arhouA" \o s, "arhoEA" \o s}

ConservedGradientNames(phase) ==
  LET s == phase_str(phase) IN {"grad_arhoA" \o s, "grad_arhouA" \o s, "grad_arhoEA" \o s}

\* a one-phase extraction that computes the gradients whatever the stabilization needs
computeLocalCellSolutionOnePhaseAlwaysGradients(need) ==
  {"A", "aA1", "grad_A", "grad_aA1"} \cup ConservedNames(0) \cup ConservedGradientNames(0)

computeLocalCellSolutionOnePhase(need) ==
  {"A", "aA1"} \cup ConservedNames(0) \cup {"grad_A"}
    \cup (IF need THEN {"grad_aA1"} \cup ConservedGradientNames(0) ELSE {})

computeLocalCellSolutionTwoPhase(need) ==
  {"A", "aA1"} \cup ConservedNames(0) \cup ConservedNames(1) \cup {"grad_A", "grad_aA1"}
    \cup (IF need THEN ConservedGradientNames(0) \cup ConservedGradientNames(1) ELSE {})

computeLocalNodeSolutionOnePhase == {"A", "aA1"} \cup ConservedNames(0)

computeLocalNodeSolutionTwoPhase == {"A", "aA1"} \cup ConservedNames(0) \cup ConservedNames(1)

getLocalNodalSolutionOnePhase == {"A"} \cup ConservedNames(0)

getLocalNodalSolutionTwoPhase == {"A", "aA1"} \cup ConservedNames(0) \cup ConservedNames(1)

\* the three operations bound at construction (__init__, "set local solution
\* update function")
computeLocalCellSolution(mt, need) ==
  IF mt = "OnePhase" THEN computeLocalCellSolutionOnePhase(need)
                     ELSE computeLocalCellSolutionTwoPhase(need)

computeLocalNodeSolution(mt) ==
  IF mt = "OnePhase" THEN computeLocalNodeSolutionOnePhase
                     ELSE computeLocalNodeSolutionTwoPhase

getLocalNodalSolution(mt) ==
  IF mt = "OnePhase" THEN getLocalNodalSolutionOnePhase
                     ELSE getLocalNodalSolutionTwoPhase

-----------------------------------------------------------------------------
(* Steady-state assembly *)

\* a value written into a context: the call and the cell (or node) it was computed for
Stamp(call, e) == [call |-> call, elem |-> e]

\* utilities.assembly_utilities.initializeDerivativeData(names, n): an entry per name
initializeDerivativeData(names, call) == WriteKeys(EmptyDict, Range(names), Stamp(call, -1))

Call(op, idx, e) == [op |-> op, idx |-> idx, elem |-> e]

\* for aux in list: aux.compute(...), as calls
ComputeCalls(op, list, e) == [i \in 1..Len(list) |-> Call(op, i, e)]

GeometryKeys == {"grad_phi", "JxW", "dx", "g", "T_wall", "htc_wall", "P_heat"}

\* a variant that allocates the context anew at the top of the loop body
ContextAtCellFresh(d, names, call) ==
  IF names = <<>> THEN EmptyDict ELSE initializeDerivativeData(names, call)

\* the context an iteration of the cell loop starts from: the one allocated before
\* the loop (lines 293-298), as the previous iterations left it
ContextAtCell(d, names, call) == d

\* assembleSteadyStateSystemWithoutConstraints, up to the call of addVolumetricTerms
\* and the allocations that precede its loop
AssembleSteadyStateBegin ==
  /\ pc = "idle"
  /\ n_call < MaxCalls
  /\ n_call' = n_call + 1
  /\ entry' = "assembleSteadyStateSystemWithoutConstraints"
  /\ rJ' = <<>>
  /\ rJ_cell' = <<>>
  /\ calls' = <<>>
  /\ data' = WriteKeys(EmptyDict, {"phi"}, Stamp(n_call + 1, -1))
  /\ der' = initializeDerivativeData(aux_names \o group_fem_aux_names, n_call + 1)
  /\ nodal_data' = EmptyDict
  /\ nodal_der' = initializeDerivativeData(nodal_aux_names, n_call + 1)
  /\ elem' = 0
  /\ pc' = "loop"
  /\ UNCHANGED <<config_vars, test_aux, raised, matrix_vars, node_data>>

\* top of the loop body: zero r_cell and J_cell, geometry and heat-transfer data
CellSetup ==
  /\ pc = "loop"
  /\ elem < NCell
  /\ rJ_cell' = <<>>
  /\ data' = WriteKeys(ContextAtCell(data, <<>>, n_call), GeometryKeys, Stamp(n_call, elem))
  /\ der' = ContextAtCell(der, aux_names \o group_fem_aux_names, n_call)
  /\ nodal_data' = ContextAtCell(nodal_data, <<>>, n_call)
  /\ nodal_der' = ContextAtCell(nodal_der, nodal_aux_names, n_call)
  /\ pc' = IF group_fem THEN "group_fem" ELSE "elemental"
  /\ UNCHANGED <<config_vars, test_aux, raised, matrix_vars, node_data, elem, n_call, entry, rJ, calls>>

\* a group-FEM pass that evaluates the interpolated auxiliaries ahead of the nodal ones
GroupFEMPassInterpolatedFirst ==
  /\ pc = "group_fem"
  /\ LET stamp == Stamp(n_call, elem) IN
       /\ nodal_data' = WriteKeys(WriteKeys(nodal_data, getLocalNodalSolution(model_type), stamp),
                                  Range(nodal_aux_names), stamp)
       /\ nodal_der' = WriteKeys(nodal_der, Range(nodal_aux_names), stamp)
       /\ data' = WriteKeys(data, Range(group_fem_aux_names), stamp)
       /\ der' = WriteKeys(der, Range(group_fem_aux_names), stamp)
  /\ calls' = calls \o <<Call("getLocalNodalSolution", 0, elem)>>
                    \o ComputeCalls("interp_aux.compute", group_fem_interp_aux_list, elem)
                    \o ComputeCalls("nodal_aux.compute", nodal_aux_list, elem)
  /\ pc' = "elemental"
  /\ UNCHANGED <<config_vars, test_aux, raised, matrix_vars, node_data, elem, n_call, entry, rJ, rJ_cell>>

\* "if self.group_fem:": nodal solution, nodal aux, interpolated flux aux
GroupFEMPass ==
  /\ pc = "group_fem"
  /\ LET stamp == Stamp(n_call, elem) IN
       /\ nodal_data' = WriteKeys(WriteKeys(nodal_data, getLocalNodalSolution(model_type), stamp),
                                  Range(nodal_aux_names), stamp)
       /\ nodal_der' = WriteKeys(nodal_der, Range(nodal_aux_names), stamp)
       /\ data' = WriteKeys(data, Range(group_fem_aux_names), stamp)
       /\ der' = WriteKeys(der, Range(group_fem_aux_names), stamp)
  /\ calls' = calls \o <<Call("getLocalNodalSolution", 0, elem)>>
                    \o ComputeCalls("nodal_aux.compute", nodal_aux_list, elem)
                    \o ComputeCalls("interp_aux.compute", group_fem_interp_aux_list, elem)
  /\ pc' = "elemental"
  /\ UNCHANGED <<config_vars, test_aux, raised, matrix_vars, node_data, elem, n_call, entry, rJ, rJ_cell>>

\* elemental solution and elemental auxiliary quantities
ElementalPass ==
  /\ pc = "elemental"
  /\ LET stamp == Stamp(n_call, elem) IN
       /\ data' = WriteKeys(WriteKeys(data, computeLocalCellSolution(model_type, need_solution_gradients),
                                      stamp),
                            Range(aux_names), stamp)
       /\ der' = WriteKeys(der, Range(aux_names), stamp)
  /\ calls' = calls \o <<Call("computeLocalCellSolution", 0, elem)>>
                    \o ComputeCalls("aux.compute", aux_list, elem)
  /\ pc' = "kernels"
  /\ UNCHANGED <<config_vars, test_aux, raised, matrix_vars, node_data, elem, n_call, entry, rJ, rJ_cell,
                 nodal_data, nodal_der>>

\* every kernel on (r_cell, J_cell), then the scatter-add into (r, J)
KernelsAndAggregate ==
  /\ pc = "kernels"
  /\ rJ_cell' = rJ_cell \o [i \in 1..Len(fem_kernels) |-> [src |-> "kernel", idx |-> i]]
  /\ calls' = calls \o ComputeCalls("kernel.apply", fem_kernels, elem)
                    \o <<Call("aggregateLocalCellVector", 0, elem),
                         Call("aggregateLocalCellMatrix", 0, elem)>>
  /\ rJ' = Append(rJ, [src |-> "cell", idx |-> elem])
  /\ elem' = elem + 1
  /\ pc' = "loop"
  /\ UNCHANGED <<config_vars, test_aux, raised, matrix_vars, node_data, n_call, entry,
                 data, der, nodal_data, nodal_der>>

\* the contributions weak constraints add: a strong one adds nothing weakly
RECURSIVE WeakContributions(_, _, _)
WeakContributions(src, list, i) ==
  IF i > Len(list) THEN <<>>
  ELSE (IF list[i].strong THEN <<>> ELSE <<[src |-> src, idx |-> i]>>)
         \o WeakContributions(src, list, i + 1)

\* a variant applying the junctions before the boundary conditions
WeakConstraintCallsJunctionsFirst ==
  ComputeCalls("junction.applyWeaklyToNonlinearSystem", junctions, -1)
    \o ComputeCalls("bc.applyWeakBC", bcs, -1)

\* the two loops that follow addVolumetricTerms, as the calls they make
WeakConstraintCalls ==
  ComputeCalls("bc.applyWeakBC", bcs, -1)
    \o ComputeCalls("junction.applyWeaklyToNonlinearSystem", junctions, -1)

WeakConstraintTerms ==
  WeakContributions("bc", bcs, 1) \o WeakContributions("junction", junctions, 1)

\* assembleSteadyStateSystemWithoutConstraints after the cell loop: weak boundary
\* conditions, weak junctions, return (r, J)
ApplyWeakConstraintsAndReturn ==
  /\ pc = "loop"
  /\ elem = NCell
  /\ calls' = calls \o WeakConstraintCalls
  /\ rJ' = rJ \o WeakConstraintTerms
  /\ pc' = "idle"
  /\ UNCHANGED <<config_vars, test_aux, raised, matrix_vars, node_data, elem, n_call, entry,
                 data, der, nodal_data, nodal_der, rJ_cell>>

\* computeLocalNodeSolution(U, k, data) on the caller's dict (explored before the
\* first assembly call)
ComputeLocalNodeSolution(k) ==
  /\ pc = "idle"
  /\ n_call = 0
  /\ node_data' = WriteKeys(node_data, computeLocalNodeSolution(model_type), Stamp(0, k))
  /\ UNCHANGED <<config_vars, test_aux, raised, matrix_vars, steady_vars, calls, entry>>

-----------------------------------------------------------------------------
(* DOF handler: indexing and scatter-add *)

\* dof_handler.variable_index[var][phase]
variable_index(mt, var, phase) ==
  LET first == IF mt = "TwoPhase" THEN 1 ELSE 0 IN
  CASE var = "AA1"    -> 0
    [] var = "ARhoA"  -> first + 3 * phase
    [] var = "ARhoUA" -> first + 3 * phase + 1
    [] var = "ARhoEA" -> first + 3 * phase + 2

\* dof_handler.i(k, var_index)
i(mt, k, var_index) == k * n_var(mt) + var_index

ZeroMatrix(n) == [r \in 0 .. n - 1 |-> [c \in 0 .. n - 1 |-> 0]]

ZeroVector(n) == [r \in 0 .. n - 1 |-> 0]

\* Mx[r, c] += v
AddAt(Mx, r, c, v) == [Mx EXCEPT ![r][c] = @ + v]

\* dof_handler.aggregateLocalCellMatrix(Mx, M_cell, e)
aggregateLocalCellMatrix(mt, Mx, M_cell, e) ==
  LET i_min == i(mt, e * (n_dof_per_cell_per_var - 1), 0)
      local == 0 .. n_dof_per_cell(mt) - 1
  IN [r \in DOMAIN Mx |-> [c \in DOMAIN Mx |->
        IF r - i_min \in local /\ c - i_min \in local
          THEN Mx[r][c] + M_cell[r - i_min][c - i_min]
          ELSE Mx[r][c]]]

-----------------------------------------------------------------------------
(* Mass matrix *)

\* the three nested loops over q, k_local, l_local, flattened: iteration n
LoopQ(n) == n \div (n_dof_per_cell_per_var * n_dof_per_cell_per_var)
LoopK(n) == (n \div n_dof_per_cell_per_var) % n_dof_per_cell_per_var
LoopL(n) == n % n_dof_per_cell_per_var
LoopCount == NQuad * n_dof_per_cell_per_var * n_dof_per_cell_per_var

RECURSIVE AddAtEach(_, _, _, _, _, _, _)
\* the "+=" statements of one (q, k_local, l_local) iteration, one per variable index
AddAtEach(mt, M_cell, indices, k, l, v, lump) ==
  IF indices = <<>> THEN M_cell
  ELSE LET r == i(mt, k, Head(indices))
           c == IF lump THEN r ELSE i(mt, l, Head(indices))
       IN AddAtEach(mt, AddAt(M_cell, r, c, v), Tail(indices), k, l, v, lump)

RECURSIVE MassCellDiagonalTermsOnly(_, _, _, _, _, _)
\* a lumped rule that keeps only the k_local == l_local terms
MassCellDiagonalTermsOnly(mt, M_cell, indices, e, n, lump) ==
  IF n = LoopCount THEN M_cell
  ELSE LET q == LoopQ(n)
           k == LoopK(n)
           l == LoopL(n)
           v == phi[k][q] * phi[l][q] * JxW[e][q]
       IN MassCellDiagonalTermsOnly(mt,
            IF lump /\ k # l THEN M_cell ELSE AddAtEach(mt, M_cell, indices, k, l, v, lump),
            indices, e, n + 1, lump)

RECURSIVE MassCellLoop(_, _, _, _, _, _)
\* M_cell after iterations n .. of the loops of cell e
MassCellLoop(mt, M_cell, indices, e, n, lump) ==
  IF n = LoopCount THEN M_cell
  ELSE LET q == LoopQ(n)
           k == LoopK(n)
           l == LoopL(n)
           v == phi[k][q] * phi[l][q] * JxW[e][q]
       IN MassCellLoop(mt, AddAtEach(mt, M_cell, indices, k, l, v, lump),
                       indices, e, n + 1, lump)

\* M_cell of cell e for the variable indices of one block
MassCell(mt, indices, e, lump) ==
  MassCellLoop(mt, ZeroMatrix(n_dof_per_cell(mt)), indices, e, 0, lump)

RECURSIVE MassCells(_, _, _, _, _)
\* "for e in range(self.dof_handler.n_cell)" from cell e on
MassCells(mt, Mx, indices, e, lump) ==
  IF e = NCell THEN Mx
  ELSE MassCells(mt, aggregateLocalCellMatrix(mt, Mx, MassCell(mt, indices, e, lump), e),
                 indices, e + 1, lump)

PhaseIndices(mt, phase) ==
  << variable_index(mt, "ARhoA", phase),
     variable_index(mt, "ARhoUA", phase),
     variable_index(mt, "ARhoEA", phase) >>

addMassMatrixPhase(mt, Mx, phase, lump) == MassCells(mt, Mx, PhaseIndices(mt, phase), 0, lump)

addMassMatrixVolumeFraction(mt, Mx, lump) ==
  MassCells(mt, Mx, <<variable_index(mt, "AA1", 0)>>, 0, lump)

\* a variant that adds the volume-fraction block for every model with two phases
computeMassMatrixVolumeFractionForTwoPhases(mt, lump) ==
  LET M0 == ZeroMatrix(n_dof(mt))
      M1 == addMassMatrixPhase(mt, M0, 0, lump)
      M2 == IF mt # "OnePhase" THEN addMassMatrixPhase(mt, M1, 1, lump) ELSE M1
      M3 == IF mt # "OnePhase" THEN addMassMatrixVolumeFraction(mt, M2, lump) ELSE M2
  IN M3

computeMassMatrix(mt, lump) ==
  LET M0 == ZeroMatrix(n_dof(mt))
      M1 == addMassMatrixPhase(mt, M0, 0, lump)
      M2 == IF mt # "OnePhase" THEN addMassMatrixPhase(mt, M1, 1, lump) ELSE M1
      M3 == IF mt = "TwoPhase" THEN addMassMatrixVolumeFraction(mt, M2, lump) ELSE M2
  IN M3

NoMatrix == <<>>

\* the scatter-adds of one block of the mass matrix (lines 221, 244): one
\* dof_handler.aggregateLocalCellMatrix per cell, in cell order
MassBlockCalls == [n \in 1 .. NCell |-> Call("aggregateLocalCellMatrix", 0, n - 1)]

\* the collaborator operations computeMassMatrix invokes: the scatter-adds of
\* addMassMatrixPhase for phase 0, for phase 1 and of addMassMatrixVolumeFraction
computeMassMatrixCalls(mt) ==
  MassBlockCalls
    \o (IF mt # "OnePhase" THEN MassBlockCalls ELSE <<>>)
    \o (IF mt = "TwoPhase" THEN MassBlockCalls ELSE <<>>)

\* performTransientSetup: self.M becomes a new array whenever it is called; an array
\* returned earlier as self.M stays with the caller as it is
PerformTransientSetup ==
  /\ pc = "idle"
  /\ M' = computeMassMatrix(model_type, lump_mass_matrix)
  /\ IF A_ref = "self.M" THEN A' = M /\ A_ref' = "own" ELSE A' = A /\ A_ref' = A_ref
  /\ entry' = "performTransientSetup"
  /\ calls' = computeMassMatrixCalls(model_type)
  /\ UNCHANGED <<config_vars, test_aux, raised, steady_vars, node_data, b, M_dU, dU>>

\* np.matmul(Mx, x)
RECURSIVE Dot(_, _, _)
Dot(row, x, n) == IF n = 0 THEN 0 ELSE row[n - 1] * x[n - 1] + Dot(row, x, n - 1)

matmul(Mx, x) == [r \in DOMAIN Mx |-> Dot(Mx[r], x, Cardinality(DOMAIN x))]

\* the solution vectors the caller passes
SolutionVectors(mt) == {[d \in DOFs(mt) |-> c * (d + 1)] : c \in 1 .. MaxWeight}
OldSolutionVectors(mt) == {[d \in DOFs(mt) |-> c] : c \in 0 .. 1}

\* assembleTransientSystem(U, U_old): returns (M_dU, self.M), the matrix by reference
AssembleTransientSystem(U, U_old) ==
  /\ pc = "idle"
  /\ M # NoMatrix
  /\ dU' = [d \in DOMAIN U |-> U[d] - U_old[d]]
  /\ M_dU' = matmul(M, [d \in DOMAIN U |-> U[d] - U_old[d]])
  /\ A' = NoMatrix
  /\ A_ref' = "self.M"
  /\ entry' = "assembleTransientSystem"
  /\ calls' = <<>>
  /\ UNCHANGED <<config_vars, test_aux, raised, steady_vars, node_data, M, b>>

-----------------------------------------------------------------------------
(* Strong constraints *)

\* what boundary condition i / junction j writes into the row it replaces: the
\* boundary conditions write 1, 2, ..., the junctions -1, -2, ...
BCValue(idx) == idx
JunctionValue(idx) == 0 - idx

\* a strong constraint replaces the row of its DOF; a weak one leaves the matrix alone
ReplaceRow(Ax, c, v) ==
  IF c.strong THEN [Ax EXCEPT ![c.dof] = [col \in DOMAIN Ax |-> IF col = c.dof THEN v ELSE 0]]
              ELSE Ax

\* a strong constraint replaces the value of its DOF
ReplaceValue(bx, c, v) == IF c.strong THEN [bx EXCEPT ![c.dof] = v] ELSE bx

RECURSIVE StrongBCsMatrix(_, _)
\* "for bc in self.bcs: bc.applyStrongBC...(A)" from position n on
StrongBCsMatrix(Ax, n) ==
  IF n > Len(bcs) THEN Ax ELSE StrongBCsMatrix(ReplaceRow(Ax, bcs[n], BCValue(n)), n + 1)

RECURSIVE StrongJunctionsMatrix(_, _)
\* "for junction in self.junctions: junction.applyStronglyTo...(A)" from position n on
StrongJunctionsMatrix(Ax, n) ==
  IF n > Len(junctions) THEN Ax
  ELSE StrongJunctionsMatrix(ReplaceRow(Ax, junctions[n], JunctionValue(n)), n + 1)

RECURSIVE StrongBCsVector(_, _)
StrongBCsVector(bx, n) ==
  IF n > Len(bcs) THEN bx ELSE StrongBCsVector(ReplaceValue(bx, bcs[n], BCValue(n)), n + 1)

RECURSIVE StrongJunctionsVector(_, _)
StrongJunctionsVector(bx, n) ==
  IF n > Len(junctions) THEN bx
  ELSE StrongJunctionsVector(ReplaceValue(bx, junctions[n], JunctionValue(n)), n + 1)

\* variants of the linear-system entry points that loop over the junctions first
applyConstraintsToLinearSystemMatrixJunctionsFirst(Ax) ==
  [A |-> StrongBCsMatrix(StrongJunctionsMatrix(Ax, 1), 1),
   calls |-> ComputeCalls("junction.applyStronglyToLinearSystemMatrix", junctions, -1)
               \o ComputeCalls("bc.applyStrongBCLinearSystemMatrix", bcs, -1)]

applyConstraintsToLinearSystemRHSVectorJunctionsFirst(bx) ==
  [b |-> StrongBCsVector(StrongJunctionsVector(bx, 1), 1),
   calls |-> ComputeCalls("junction.applyStronglyToLinearSystemRHSVector", junctions, -1)
               \o ComputeCalls("bc.applyStrongBCLinearSystemRHSVector", bcs, -1)]

\* applyConstraintsToNonlinearSystem(U, r, J): the arrays as the call leaves them and
\* the operations it invokes
applyConstraintsToNonlinearSystem(r, J) ==
  [r |-> StrongJunctionsVector(StrongBCsVector(r, 1), 1),
   J |-> StrongJunctionsMatrix(StrongBCsMatrix(J, 1), 1),
   calls |-> ComputeCalls("bc.applyStrongBCNonlinearSystem", bcs, -1)
               \o ComputeCalls("junction.applyStronglyToNonlinearSystem", junctions, -1)]

\* applyConstraintsToLinearSystemMatrix(A)
applyConstraintsToLinearSystemMatrix(Ax) ==
  [A |-> StrongJunctionsMatrix(StrongBCsMatrix(Ax, 1), 1),
   calls |-> ComputeCalls("bc.applyStrongBCLinearSystemMatrix", bcs, -1)
               \o ComputeCalls("junction.applyStronglyToLinearSystemMatrix", junctions, -1)]

\* applyConstraintsToLinearSystemRHSVector(U, b)
applyConstraintsToLinearSystemRHSVector(bx) ==
  [b |-> StrongJunctionsVector(StrongBCsVector(bx, 1), 1),
   calls |-> ComputeCalls("bc.applyStrongBCLinearSystemRHSVector", bcs, -1)
               \o ComputeCalls("junction.applyStronglyToLinearSystemRHSVector", junctions, -1)]

\* the matrix object the caller holds
HeldMatrix == IF A_ref = "self.M" THEN M ELSE A

\* the caller builds a matrix of its own from the one it was returned (a new array)
CallerCopiesMatrix ==
  /\ pc = "idle"
  /\ A_ref = "self.M"
  /\ A' = M
  /\ A_ref' = "own"
  /\ UNCHANGED <<config_vars, test_aux, raised, steady_vars, node_data, M, b, M_dU, dU, calls, entry>>

\* the arrays are modified in place: a matrix argument that is the object self.M
\* changes self.M
ApplyConstraintsToNonlinearSystem ==
  /\ pc = "idle"
  /\ A_ref # "none"
  /\ LET out == applyConstraintsToNonlinearSystem(b, HeldMatrix) IN
       /\ b' = out.r
       /\ IF A_ref = "self.M" THEN M' = out.J /\ A' = A ELSE A' = out.J /\ M' = M
       /\ calls' = out.calls
  /\ entry' = "applyConstraintsToNonlinearSystem"
  /\ UNCHANGED <<config_vars, test_aux, raised, steady_vars, node_data, A_ref, M_dU, dU>>

ApplyConstraintsToLinearSystemMatrix ==
  /\ pc = "idle"
  /\ A_ref # "none"
  /\ LET out == applyConstraintsToLinearSystemMatrix(HeldMatrix) IN
       /\ IF A_ref = "self.M" THEN M' = out.A /\ A' = A ELSE A' = out.A /\ M' = M
       /\ calls' = out.calls
  /\ entry' = "applyConstraintsToLinearSystemMatrix"
  /\ UNCHANGED <<config_vars, test_aux, raised, steady_vars, node_data, A_ref, b, M_dU, dU>>

ApplyConstraintsToLinearSystemRHSVector ==
  /\ pc = "idle"
  /\ b # <<>>
  /\ LET out == applyConstraintsToLinearSystemRHSVector(b) IN
       /\ b' = out.b
       /\ calls' = out.calls
  /\ entry' = "applyConstraintsToLinearSystemRHSVector"
  /\ UNCHANGED <<config_vars, test_aux, raised, steady_vars, node_data, M, A, A_ref, M_dU, dU>>

\* the state after FEMAssembly.__init__ for a model, a stabilization and the lists
\* of the Assembly base class
Constructed(mt, gf, lump, stab, sources) ==
  /\ model_type = mt
  /\ group_fem = gf
  /\ lump_mass_matrix = lump
  /\ need_solution_gradients = stab.needSolutionGradients
  /\ aux_list = BaseAuxList(mt) \o stab.aux
  /\ nodal_aux_list = IF gf THEN BaseAuxList(mt) \o stab.aux \o createNodalAuxQuantities(mt)
                            ELSE <<>>
  /\ group_fem_interp_aux_list = IF gf THEN createInterpolatedAux(mt) ELSE <<>>
  /\ fem_kernels = createAdvectionKernels(mt, gf) \o stab.kernels \o sources

\* nothing assembled yet
Fresh ==
  /\ M = NoMatrix
  /\ pc = "idle"
  /\ elem = 0
  /\ n_call = 0
  /\ data = EmptyDict
  /\ der = EmptyDict
  /\ nodal_data = EmptyDict
  /\ nodal_der = EmptyDict
  /\ node_data = EmptyDict
  /\ rJ = <<>>
  /\ rJ_cell = <<>>
  /\ calls = <<>>
  /\ entry = "none"
  /\ A = NoMatrix
  /\ A_ref = "none"
  /\ b = <<>>
  /\ M_dU = <<>>
  /\ dU = <<>>
  /\ raised = NoError

UnitWeights == [k \in 0 .. n_dof_per_cell_per_var - 1 |-> [q \in 0 .. NQuad - 1 |-> 1]]

\* boundary conditions and junctions of the steady-state runs: all at DOF 0
SteadyConstraints == [dof : {0}, strong : BOOLEAN]

Init ==
  /\ \E mt \in ModelTypes, gf \in BOOLEAN, stab \in Stabilizations, sources \in SourceKernelLists :
       Constructed(mt, gf, FALSE, stab, sources)
  /\ bcs \in ListsUpTo(SteadyConstraints, MaxConstraints)
  /\ junctions \in ListsUpTo(SteadyConstraints, MaxConstraints)
  /\ phi = UnitWeights
  /\ JxW = [e \in 0 .. NCell - 1 |-> [q \in 0 .. NQuad - 1 |-> 1]]
  /\ Fresh
  /\ test_aux = NoAux

Next ==
  \/ AssembleSteadyStateBegin
  \/ CellSetup
  \/ GroupFEMPass
  \/ ElementalPass
  \/ KernelsAndAggregate
  \/ ApplyWeakConstraintsAndReturn
  \/ \E k \in {0, n_node - 1} : ComputeLocalNodeSolution(k)

Spec == Init /\ [][Next]_vars

-----------------------------------------------------------------------------
(* Mass matrix and transient system on meshes with varying shape values and cell sizes *)

\* shape-function tables: phi[k][q] is a at the quadrature point nearest node k, c elsewhere
ShapeTables ==
  { [k \in 0 .. n_dof_per_cell_per_var - 1 |->
       [q \in 0 .. NQuad - 1 |-> IF q % n_dof_per_cell_per_var = k THEN a ELSE c]] :
    a \in 1 .. MaxWeight, c \in 1 .. MaxWeight }

\* JxW[e][q] = (cell size) * (quadrature weight q + 1)
JxWTables ==
  { [e \in 0 .. NCell - 1 |-> [q \in 0 .. NQuad - 1 |-> h[e] * (q + 1)]] :
    h \in [0 .. NCell - 1 -> 1 .. MaxWeight] }

InitMass ==
  /\ \E mt \in ModelTypes, lump \in BOOLEAN :
       Constructed(mt, FALSE, lump, CHOOSE st \in Stabilizations : ~st.needSolutionGradients, <<>>)
  /\ bcs = <<>>
  /\ junctions = <<>>
  /\ phi \in ShapeTables
  /\ JxW \in JxWTables
  /\ Fresh
  /\ test_aux = NoAux

NextMass ==
  \/ PerformTransientSetup
  \/ \E U \in SolutionVectors(model_type), U_old \in OldSolutionVectors(model_type) :
       AssembleTransientSystem(U, U_old)

SpecMass == InitMass /\ [][NextMass]_vars

-----------------------------------------------------------------------------
(* Transient runs with strong constraints *)

\* boundary conditions and junctions of the transient runs: strong ones at the first
\* and at the last node, a weak one at the first node
TransientConstraints(mt) ==
  [dof : ConstrainedDOFs(mt), strong : {TRUE}] \cup {[dof |-> 0, strong |-> FALSE]}

\* the solution vector of the transient runs
RampVector(mt) == [d \in DOFs(mt) |-> d + 1]

\* the constraint entry points and the transient system do not branch on the model:
\* the transient runs use the model with the fewest DOFs
TransientModelTypes == {"OnePhase"}

InitTransient ==
  /\ \E mt \in TransientModelTypes :
       /\ Constructed(mt, FALSE, FALSE, CHOOSE st \in Stabilizations : ~st.needSolutionGradients, <<>>)
       /\ bcs \in ListsUpTo(TransientConstraints(mt), MaxConstraints)
       /\ junctions \in ListsUpTo(TransientConstraints(mt), MaxConstraints)
  /\ phi = UnitWeights
  /\ JxW = [e \in 0 .. NCell - 1 |-> [q \in 0 .. NQuad - 1 |-> 1]]
  /\ M = NoMatrix
  /\ pc = "idle"
  /\ elem = 0
  /\ n_call = 0
  /\ data = EmptyDict
  /\ der = EmptyDict
  /\ nodal_data = EmptyDict
  /\ nodal_der = EmptyDict
  /\ node_data = EmptyDict
  /\ rJ = <<>>
  /\ rJ_cell = <<>>
  /\ calls = <<>>
  /\ entry = "none"
  /\ A = NoMatrix
  /\ A_ref = "none"
  /\ b = ZeroVector(n_dof(model_type))
  /\ M_dU = <<>>
  /\ dU = <<>>
  /\ raised = NoError
  /\ test_aux = NoAux

NextTransient ==
  \/ PerformTransientSetup
  \/ AssembleTransientSystem(RampVector(model_type), ZeroVector(n_dof(model_type)))
  \/ CallerCopiesMatrix
  \/ ApplyConstraintsToNonlinearSystem
  \/ ApplyConstraintsToLinearSystemMatrix
  \/ ApplyConstraintsToLinearSystemRHSVector

SpecTransient == InitTransient /\ [][NextTransient]_vars

-----------------------------------------------------------------------------
(* Auxiliary quantities with values: SoundSpeed (src/aux/SoundSpeed.py) and   *)
(* the closures of PressureDerivativesTester.  A Python float is held as the  *)
(* fraction <<numerator, denominator>> in lowest terms (the values met here   *)
(* are whole numbers and halves, which floats hold exactly); an array over    *)
(* the quadrature points is held as its value at one point.                   *)

\* largest slope of a linear c_function drawn, largest solution value drawn
MaxCoef == 2

RECURSIVE GCD(_, _)
GCD(m, n) == IF n = 0 THEN m ELSE GCD(n, m % n)

\* the float n / d, d > 0
Fraction(n, d) ==
  LET g == GCD(IF n < 0 THEN 0 - n ELSE n, d) IN <<n \div g, d \div g>>

Whole(k) == <<k, 1>>

\* x * y, x + y, x - y on floats
Times(x, y) == Fraction(x[1] * y[1], x[2] * y[2])
Plus(x, y) == Fraction(x[1] * y[2] + y[1] * x[2], x[2] * y[2])
Minus(x, y) == Fraction(x[1] * y[2] - y[1] * x[2], x[2] * y[2])

\* the dict {keys[i] : values[i]}
Dict(keys, values) ==
  [k \in Range(keys) |-> values[CHOOSE n \in 1..Len(keys) : keys[n] = k]]

\* Python's KeyError for d[key], d being the data context ("data"), the derivative
\* context ("der") or the derivative entry of a quantity ("der[v]", "der[e]")
KeyError(context, key) == <<"KeyError", context, key>>

\* the result of a compute call: the two contexts as it leaves them and the
\* exception it raises
Returned(d, dr) == [data |-> d, der |-> dr, raised |-> NoError]
Raised(d, dr, err) == [data |-> d, der |-> dr, raised |-> err]

\* TestAux with parameters var, other_vars, coefs
TestAux(var, other_vars, coefs) ==
  [kind |-> "TestAux", name |-> var, other_vars |-> other_vars, coefs |-> coefs]

\* SoundSpeed with parameter c_function, Pressure with parameter p_function: the
\* function is linear, given by its two slopes
SoundSpeedAux(c_function) == [kind |-> "SoundSpeed", name |-> "c", c_function |-> c_function]
PressureAux(p_function) == [kind |-> "Pressure", name |-> "p", c_function |-> p_function]

\* computePressure(v, e) of the tester: p = 2.0 v + 3.0 e
computePressure == [v_slope |-> Whole(2), e_slope |-> Whole(3)]

\* the tester's closures: pressure aux, specific volume aux, specific internal
\* energy aux
pressure_aux == PressureAux(computePressure)
v_aux == TestAux("v", <<"vf1", "arho">>, <<Whole(2), Whole(3)>>)
e_aux == TestAux("e", <<"arho", "arhou", "arhoE">>,
                 <<Fraction(5, 2), Fraction(7, 2), Fraction(9, 2)>>)

root_vars == <<"vf1", "arho", "arhou", "arhoE">>

\* f(v, e) = (value, d/dv, d/de)
ApplyFunction(f, v, e) ==
  <<Plus(Times(f.v_slope, v), Times(f.e_slope, e)), f.v_slope, f.e_slope>>

RECURSIVE LinearCombination(_, _, _, _)
LinearCombination(coefs, names, d, n) ==
  IF n > Len(names) THEN Whole(0)
  ELSE Plus(Times(coefs[n], d[names[n]]), LinearCombination(coefs, names, d, n + 1))

\* TestAux.compute: var = sum of coefs[i] * data[other_vars[i]] (KeyError at the first
\* of other_vars the data context lacks), der[var] = {other_vars[i] : coefs[i]}
TestAuxCompute(aux, d, dr) ==
  LET missing == {n \in 1 .. Len(aux.other_vars) : aux.other_vars[n] \notin DOMAIN d} IN
  IF missing # {}
  THEN Raised(d, dr, KeyError("data", aux.other_vars[CHOOSE n \in missing :
                                                       \A m \in missing : n <= m]))
  ELSE Returned(WriteKeys(d, {aux.name}, LinearCombination(aux.coefs, aux.other_vars, d, 1)),
                WriteKeys(dr, {aux.name}, Dict(aux.other_vars, aux.coefs)))

\* a chain rule that leaves the dependence of e on arho out
SoundSpeedDerivativesThroughVOnly(dc_dv, dc_de, dr) ==
  [vf1   |-> Times(dc_dv, dr["v"]["vf1"]),
   arho  |-> Times(dc_dv, dr["v"]["arho"]),
   arhou |-> Times(dc_de, dr["e"]["arhou"]),
   arhoE |-> Times(dc_de, dr["e"]["arhoE"])]

\* SoundSpeed.compute, lines 22-26: the entry written as der[self.c]
SoundSpeedDerivatives(dc_dv, dc_de, dr) ==
  [vf1   |-> Times(dc_dv, dr["v"]["vf1"]),
   arho  |-> Plus(Times(dc_dv, dr["v"]["arho"]), Times(dc_de, dr["e"]["arho"])),
   arhou |-> Times(dc_de, dr["e"]["arhou"]),
   arhoE |-> Times(dc_de, dr["e"]["arhoE"])]

\* SoundSpeed.compute(data, der): every subscript raises KeyError where the key is
\* missing, in the order the statements evaluate them
SoundSpeedCompute(aux, d, dr) ==
  IF "v" \notin DOMAIN d THEN Raised(d, dr, KeyError("data", "v"))
  ELSE IF "e" \notin DOMAIN d THEN Raised(d, dr, KeyError("data", "e"))
  ELSE
    LET out   == ApplyFunction(aux.c_function, d["v"], d["e"])
        c     == out[1]
        dc_dv == out[2]
        dc_de == out[3]
        d1    == WriteKeys(d, {aux.name}, c)
    IN IF "v" \notin DOMAIN dr THEN Raised(d1, dr, KeyError("der", "v"))
       ELSE IF "vf1" \notin DOMAIN dr["v"] THEN Raised(d1, dr, KeyError("der[v]", "vf1"))
       ELSE IF "arho" \notin DOMAIN dr["v"] THEN Raised(d1, dr, KeyError("der[v]", "arho"))
       ELSE IF "e" \notin DOMAIN dr THEN Raised(d1, dr, KeyError("der", "e"))
       ELSE IF "arho" \notin DOMAIN dr["e"] THEN Raised(d1, dr, KeyError("der[e]", "arho"))
       ELSE IF "arhou" \notin DOMAIN dr["e"] THEN Raised(d1, dr, KeyError("der[e]", "arhou"))
       ELSE IF "arhoE" \notin DOMAIN dr["e"] THEN Raised(d1, dr, KeyError("der[e]", "arhoE"))
       ELSE Returned(d1, WriteKeys(dr, {aux.name}, SoundSpeedDerivatives(dc_dv, dc_de, dr)))

\* Pressure.compute: the same statements with p_function and self.p
PressureCompute(aux, d, dr) == SoundSpeedCompute(aux, d, dr)

\* aux.compute(data, der)
compute(aux, d, dr) ==
  CASE aux.kind = "TestAux" -> TestAuxCompute(aux, d, dr)
    [] aux.kind = "SoundSpeed" -> SoundSpeedCompute(aux, d, dr)
    [] aux.kind = "Pressure" -> PressureCompute(aux, d, dr)

\* the linear c_function parameters drawn
LinearFunctions == {[v_slope |-> Whole(a), e_slope |-> Whole(c)] : a, c \in 1 .. MaxCoef}

-----------------------------------------------------------------------------
(* The elemental auxiliary loop of addVolumetricTerms with values *)

\* the primary variables of the one-phase model
SolutionNames == {"aA1"} \cup ConservedNames(0)

\* the entry initializeDerivativeData(names, n) makes for a name, before any compute
\* has written it: the callers do not fix its keys; it holds either no key, or an
\* array of n zeros per primary variable (these arrays keep their size)
InitialEntries(n) ==
  { EmptyDict, [x \in SolutionNames |-> [q \in 0 .. n - 1 |-> Whole(0)]] }

\* initializeDerivativeData(names, n), every entry being the initial entry given
DerivativeEntries(names, initial) == [k \in Range(names) |-> initial]

\* an auxiliary loop that catches the exception and goes on with the next auxiliary
AfterComputeContinuing(out, n) ==
  IF n = Len(aux_list) THEN "kernels" ELSE "aux"

\* where control goes after aux_list[n].compute: an exception leaves the loop, the
\* function and the entry point (nothing catches it)
AfterCompute(out, n) ==
  IF out.raised # NoError THEN "raised"
  ELSE IF n = Len(aux_list) THEN "kernels" ELSE "aux"

\* one iteration of "for aux in self.aux_list: aux.compute(data, der)"; calls[1] is
\* the elemental solution extraction, calls[n + 1] the compute of aux_list[n]
AuxCompute ==
  /\ pc = "aux"
  /\ LET n   == Len(calls)
         out == compute(aux_list[n], data, der)
     IN /\ n <= Len(aux_list)
        /\ calls' = Append(calls, Call("aux.compute", n, elem))
        /\ data' = out.data
        /\ der' = out.der
        /\ raised' = out.raised
        /\ pc' = AfterCompute(out, n)
  /\ UNCHANGED <<config_vars, test_aux, matrix_vars, node_data, elem, n_call, entry, rJ,
                 rJ_cell, nodal_data, nodal_der>>

\* closures like the tester's on the quantities the elemental extraction provides
SpecificVolumeAux ==
  { v_aux, TestAux("v", <<"aA1", "arhoA1">>, v_aux.coefs) }

SpecificInternalEnergyAux ==
  { e_aux, TestAux("e", <<"arhoA1", "arhouA1", "arhoEA1">>, e_aux.coefs) }

\* the auxiliary lists of the assembly explored: v, e alone; v, e, c, p; the same
\* without v; with c ahead of e; with p ahead of c
ClosureAuxLists ==
  UNION { { <<v, e>>,
            <<v, e, SoundSpeedAux(f), pressure_aux>>,
            <<e, SoundSpeedAux(f), pressure_aux>>,
            <<v, SoundSpeedAux(f), e, pressure_aux>>,
            <<v, e, pressure_aux, SoundSpeedAux(f)>> } :
          v \in SpecificVolumeAux, e \in SpecificInternalEnergyAux, f \in LinearFunctions }

\* data when line 335 is reached for the first cell of the first call: phi, the
\* geometry and heat-transfer data and the elemental solution, every value being u
ElementalData(u) ==
  [k \in {"phi"} \cup GeometryKeys \cup computeLocalCellSolution(model_type, need_solution_gradients)
     |-> Whole(u)]

\* addVolumetricTerms of a one-phase assembly without group FEM, at line 335 for the
\* first cell of the first call
InitAux ==
  /\ model_type = "OnePhase"
  /\ group_fem = FALSE
  /\ lump_mass_matrix = FALSE
  /\ need_solution_gradients = FALSE
  /\ aux_list \in ClosureAuxLists
  /\ nodal_aux_list = <<>>
  /\ group_fem_interp_aux_list = <<>>
  /\ fem_kernels = createAdvectionKernels("OnePhase", FALSE)
  /\ bcs = <<>>
  /\ junctions = <<>>
  /\ phi = UnitWeights
  /\ JxW = [e \in 0 .. NCell - 1 |-> [q \in 0 .. NQuad - 1 |-> 1]]
  /\ M = NoMatrix
  /\ pc = "aux"
  /\ elem = 0
  /\ n_call = 1
  /\ \E u \in 1 .. MaxCoef : data = ElementalData(u)
  /\ \E initial \in InitialEntries(NQuad) :
       der = DerivativeEntries(aux_names \o group_fem_aux_names, initial)
  /\ nodal_data = EmptyDict
  /\ \E initial \in InitialEntries(n_dof_per_cell_per_var) :
       nodal_der = DerivativeEntries(nodal_aux_names, initial)
  /\ node_data = EmptyDict
  /\ rJ = <<>>
  /\ rJ_cell = <<>>
  /\ calls = <<Call("computeLocalCellSolution", 0, 0)>>
  /\ entry = "assembleSteadyStateSystemWithoutConstraints"
  /\ A = NoMatrix
  /\ A_ref = "none"
  /\ b = <<>>
  /\ M_dU = <<>>
  /\ dU = <<>>
  /\ raised = NoError
  /\ test_aux = NoAux

NextAux ==
  \/ AuxCompute
  \/ KernelsAndAggregate

SpecAux == InitAux /\ [][NextAux]_vars

-----------------------------------------------------------------------------
(* compute called on contexts a caller built (the derivative tester) *)

\* the auxiliary under test: the tester's pressure, or a sound speed
TestedAuxiliaries == {pressure_aux} \cup {SoundSpeedAux(f) : f \in LinearFunctions}

\* the function d without the keys
Without(d, keys) == [k \in (DOMAIN d) \ keys |-> d[k]]

\* the values of the root variables
RootData == Dict(root_vars, <<Whole(1), Whole(2), Whole(3), Whole(5)>>)

\* the contexts after the closures v and e have computed on the root variables
ContextsOf(v, e) ==
  LET after_v == TestAuxCompute(v, RootData, EmptyDict)
  IN TestAuxCompute(e, after_v.data, after_v.der)

\* closures with whole coefficients, and an energy closure that depends on vf1 too
OtherClosures ==
  { <<TestAux("v", v_aux.other_vars, <<Whole(a), Whole(a + 1)>>),
      TestAux("e", e_aux.other_vars, <<Whole(a), Whole(a + 1), Whole(a + 2)>>)>> :
    a \in 1 .. MaxCoef }
  \cup { <<v_aux, TestAux("e", root_vars, <<Whole(1)>> \o e_aux.coefs)>> }

\* the contexts handed to compute: those of the tester's closures and of the other
\* closures, as they are or with v or e, or one key of der[v] or of der[e], left out
\* of a context
CallerContexts ==
  LET Complete == { ContextsOf(ve[1], ve[2]) : ve \in {<<v_aux, e_aux>>} \cup OtherClosures }
      LessData(c) ==
        { [c EXCEPT !.data = Without(c.data, keys)] : keys \in SUBSET {"v", "e"} }
      LessDer(c) ==
        { [c EXCEPT !.der = Without(c.der, {name})] : name \in {"v", "e"} }
          \cup { [c EXCEPT !.der[name] = Without(c.der[name], {x})] :
                 name \in {"v", "e"}, x \in Range(root_vars) }
          \cup { [c EXCEPT !.der[name] = EmptyDict] : name \in {"v", "e"} }
          \cup { c }
  IN UNION { UNION { LessData(c2) : c2 \in LessDer(c) } : c \in Complete }

\* the tested auxiliary is constructed and the contexts are built; compute is not
\* called yet
InitClosure ==
  /\ model_type = "OnePhase"
  /\ group_fem = FALSE
  /\ lump_mass_matrix = FALSE
  /\ need_solution_gradients = FALSE
  /\ aux_list = <<>>
  /\ nodal_aux_list = <<>>
  /\ group_fem_interp_aux_list = <<>>
  /\ fem_kernels = <<>>
  /\ bcs = <<>>
  /\ junctions = <<>>
  /\ phi = UnitWeights
  /\ JxW = [e \in 0 .. NCell - 1 |-> [q \in 0 .. NQuad - 1 |-> 1]]
  /\ M = NoMatrix
  /\ pc = "idle"
  /\ elem = 0
  /\ n_call = 0
  /\ \E c \in CallerContexts : data = c.data /\ der = c.der
  /\ nodal_data = EmptyDict
  /\ nodal_der = EmptyDict
  /\ node_data = EmptyDict
  /\ rJ = <<>>
  /\ rJ_cell = <<>>
  /\ calls = <<>>
  /\ entry = "none"
  /\ A = NoMatrix
  /\ A_ref = "none"
  /\ b = <<>>
  /\ M_dU = <<>>
  /\ dU = <<>>
  /\ raised = NoError
  /\ test_aux \in TestedAuxiliaries

\* test_aux.compute(data, der)
ComputeTestAux ==
  /\ test_aux # NoAux
  /\ calls = <<>>
  /\ LET out == compute(test_aux, data, der)
     IN /\ data' = out.data
        /\ der' = out.der
        /\ raised' = out.raised
  /\ calls' = <<Call("test_aux.compute", 0, -1)>>
  /\ UNCHANGED <<config_vars, test_aux, matrix_vars, node_data, pc, elem, n_call, entry,
                 rJ, rJ_cell, nodal_data, nodal_der>>

NextClosure == ComputeTestAux

SpecClosure == InitClosure /\ [][NextClosure]_vars

-----------------------------------------------------------------------------
(* Properties of the steady-state assembly (checked under Spec) *)

IsWeakCall(c) == c.op \in {"bc.applyWeakBC", "junction.applyWeaklyToNonlinearSystem"}

StrongOps ==
  {"bc.applyStrongBCNonlinearSystem", "bc.applyStrongBCLinearSystemMatrix",
   "bc.applyStrongBCLinearSystemRHSVector", "junction.applyStronglyToNonlinearSystem",
   "junction.applyStronglyToLinearSystemMatrix", "junction.applyStronglyToLinearSystemRHSVector"}

InSteadyAssembly == entry = "assembleSteadyStateSystemWithoutConstraints"

\* C1: assembleSteadyStateSystemWithoutConstraints starts from zero (r, J); while the
\* cell loop runs, (r, J) holds the contributions of the cells done so far, in order,
\* and no weak constraint has been applied; when the call returns, (r, J) holds the
\* contribution of every cell, then those of the weak boundary conditions in list
\* order, then those of the weak junctions in list order, every boundary condition's
\* and junction's weak operation has been invoked once in that order, and no strong
\* operation was invoked at any point of the call.
C1_WeakConstraintsAfterAllCells ==
  InSteadyAssembly =>
    LET weak == SelectSeq(calls, IsWeakCall)
        nb == Len(bcs)
        nj == Len(junctions)
        cellsDone == IF pc = "idle" THEN NCell ELSE elem
    IN /\ \A n \in 1 .. Len(calls) : calls[n].op \notin StrongOps
       /\ Len(rJ) >= cellsDone
       /\ \A n \in 1 .. cellsDone : rJ[n] = [src |-> "cell", idx |-> n - 1]
       /\ pc # "idle" => Len(rJ) = cellsDone /\ weak = <<>>
       /\ pc = "idle" =>
            /\ Len(weak) = nb + nj
            /\ \A n \in 1 .. nb : weak[n] = Call("bc.applyWeakBC", n, -1)
            /\ \A n \in 1 .. nj :
                 weak[nb + n] = Call("junction.applyWeaklyToNonlinearSystem", n, -1)
            /\ \A n \in NCell + 1 .. Len(rJ) : rJ[n].src \in {"bc", "junction"}
            /\ \A n, m \in NCell + 1 .. Len(rJ) :
                 n < m => /\ ~(rJ[n].src = "junction" /\ rJ[m].src = "bc")
                          /\ rJ[n].src = rJ[m].src => rJ[n].idx < rJ[m].idx
            /\ {rJ[n].idx : n \in {m \in NCell + 1 .. Len(rJ) : rJ[m].src = "bc"}}
                 = {n \in 1 .. nb : ~bcs[n].strong}
            /\ {rJ[n].idx : n \in {m \in NCell + 1 .. Len(rJ) : rJ[m].src = "junction"}}
                 = {n \in 1 .. nj : ~junctions[n].strong}

\* a returned steady-state system with two boundary conditions and two junctions,
\* weak and strong ones among them
C1_Witness ==
  /\ InSteadyAssembly
  /\ pc = "idle"
  /\ Len(bcs) = 2 /\ Len(junctions) = 2
  /\ ~bcs[1].strong /\ bcs[2].strong
  /\ junctions[1].strong /\ ~junctions[2].strong

Contexts == <<data, der, nodal_data, nodal_der>>

\* a cell is being processed: its setup is done, its kernels are not
ProcessingCell == pc \in {"group_fem", "elemental"}

\* C2 as stated: while a cell is processed, the contexts hold nothing that was written
\* while an earlier cell of the call was processed
C2_FreshContextPerCell ==
  ProcessingCell =>
    \A n \in 1 .. Len(Contexts) : \A k \in DOMAIN Contexts[n] :
      Contexts[n][k].elem \in {-1, elem}

\* C2 amended: the contexts are built once per assembly call, before the cell loop:
\* every entry they hold was written during the current call, and while a later cell
\* is processed the geometry-independent values and derivative entries written for
\* the previous cell (the area A, every elemental auxiliary) are still present, until
\* that cell's own extraction and auxiliaries overwrite them.
C2_ContextPerAssemblyCall ==
  /\ pc # "idle" =>
       \A n \in 1 .. Len(Contexts) : \A k \in DOMAIN Contexts[n] :
         Contexts[n][k].call = n_call
  /\ (ProcessingCell /\ elem > 0) =>
       /\ "phi" \in DOMAIN data
       /\ \A k \in {"A"} \cup Range(aux_names) :
            k \in DOMAIN data /\ data[k] = Stamp(n_call, elem - 1)
       /\ \A k \in Range(aux_names) : der[k] = Stamp(n_call, elem - 1)

\* the second cell of the second assembly call, in group-FEM mode
C2_Witness == pc = "elemental" /\ elem = 1 /\ group_fem /\ n_call = 2

InteractionKernelNames ==
  {"VolumeFractionAdvection", "MomentumVolumeFractionGradient", "EnergyVolumeFractionGradient"}

KernelCount(name, phase) ==
  Cardinality({n \in 1 .. Len(fem_kernels) :
                 fem_kernels[n].name = name /\ fem_kernels[n].phase = phase})

\* C7: without phase interaction the kernel list holds no VolumeFractionAdvection,
\* MomentumVolumeFractionGradient or EnergyVolumeFractionGradient kernel, with or
\* without group FEM; with phase interaction it holds exactly one
\* VolumeFractionAdvection, of phase 0, and exactly one MomentumVolumeFractionGradient
\* and one EnergyVolumeFractionGradient for each phase of the model.
C7_PhaseInteractionKernels ==
  /\ ~phase_interaction(model_type) =>
       \A n \in 1 .. Len(fem_kernels) : fem_kernels[n].name \notin InteractionKernelNames
  /\ phase_interaction(model_type) =>
       /\ KernelCount("VolumeFractionAdvection", 0) = 1
       /\ KernelCount("VolumeFractionAdvection", 1) = 0
       /\ \A p \in Range(phases(model_type)) :
            /\ KernelCount("MomentumVolumeFractionGradient", p) = 1
            /\ KernelCount("EnergyVolumeFractionGradient", p) = 1
       /\ \A n \in 1 .. Len(fem_kernels) :
            fem_kernels[n].name \in InteractionKernelNames =>
              fem_kernels[n].phase \in Range(phases(model_type))

\* a two-phase model without phase interaction, assembled with group FEM
C7_Witness ==
  /\ model_type = "TwoPhaseNonInteracting"
  /\ group_fem
  /\ KernelCount("InterpolatedAdvection", 1) = 3

AllConservedGradientNames == ConservedGradientNames(0) \cup ConservedGradientNames(1)

SolutionGradientNames == {"grad_aA1"} \cup AllConservedGradientNames

\* computeLocalCellSolution has run for the current cell
AfterElementalExtraction == pc = "kernels"

\* C8 as stated: in both variants the data context holds a gradient of a solution
\* variable only if the stabilization needs solution gradients
C8_GradientsOnlyIfNeeded ==
  AfterElementalExtraction =>
    ((DOMAIN data \cap SolutionGradientNames # {}) => need_solution_gradients)

\* C8 amended: the gradients of the conserved variables of the model's phases are
\* written exactly when the stabilization needs solution gradients; grad_aA1 is written
\* under that condition in the one-phase variant and always in the two-phase variant.
C8_ConservedGradientsOnlyIfNeeded ==
  AfterElementalExtraction =>
    LET modelGradients ==
          UNION {ConservedGradientNames(p) : p \in Range(phases(model_type))}
    IN /\ DOMAIN data \cap AllConservedGradientNames
            = (IF need_solution_gradients THEN modelGradients ELSE {})
       /\ "grad_aA1" \in DOMAIN data
            <=> (need_solution_gradients \/ model_type # "OnePhase")

\* the two-phase variant under a stabilization that needs no solution gradients
C8_Witness ==
  /\ AfterElementalExtraction
  /\ model_type = "TwoPhase"
  /\ ~need_solution_gradients
  /\ "grad_aA1" \in DOMAIN data

SolutionQuantityNames == {"A", "aA1"} \cup ConservedNames(0) \cup ConservedNames(1)

\* C9 as stated: every non-gradient quantity the elemental extraction has written is
\* also written by the single-node extraction and by the group-FEM nodal extraction,
\* and in group-FEM mode every dependency an interpolated flux auxiliary declares is
\* in the nodal data context
C9_SameQuantitiesInEveryExtraction ==
  AfterElementalExtraction =>
    LET elemental == DOMAIN data \cap SolutionQuantityNames IN
    /\ node_data # EmptyDict => elemental \subseteq DOMAIN node_data
    /\ group_fem =>
         /\ elemental \subseteq DOMAIN nodal_data
         /\ \A n \in 1 .. Len(group_fem_interp_aux_list) :
              Range(group_fem_interp_aux_list[n].dependencies) \subseteq DOMAIN nodal_data

-----------------------------------------------------------------------------
(* Properties of the mass matrix (checked under SpecMass) *)

RECURSIVE SumTo(_, _)
\* f[0] + ... + f[n - 1]
SumTo(f, n) == IF n = 0 THEN 0 ELSE f[n - 1] + SumTo(f, n - 1)

RowSum(Mx, r) == SumTo(Mx[r], Cardinality(DOMAIN Mx))

MassMatrixSet == M # NoMatrix

\* C3: the mass matrix computed under the lumped policy is diagonal, and each diagonal
\* entry equals the sum of the same row of the mass matrix the consistent policy
\* computes for the same mesh, quadrature and model; this holds at every global DOF,
\* those shared by two cells included.
C3_LumpedIsRowSumOfConsistent ==
  (MassMatrixSet /\ lump_mass_matrix) =>
    LET consistent == computeMassMatrix(model_type, FALSE) IN
    \A r, c \in DOFs(model_type) :
      M[r][c] = IF r = c THEN RowSum(consistent, r) ELSE 0

\* a lumped two-phase mass matrix on cells of different sizes, whose consistent
\* counterpart couples the two cells through the DOFs of the shared node
C3_Witness ==
  /\ MassMatrixSet
  /\ lump_mass_matrix
  /\ model_type = "TwoPhase"
  /\ JxW[0] # JxW[1]
  /\ LET consistent == computeMassMatrix(model_type, FALSE)
         shared == i(model_type, 1, 0)
     IN /\ consistent[shared][i(model_type, 0, 0)] # 0
        /\ consistent[shared][i(model_type, 2, 0)] # 0
        /\ M[shared][shared] > consistent[shared][shared]

\* the variable indices whose block computeMassMatrix is to accumulate
ExpectedBlocks(mt) ==
  UNION {{variable_index(mt, "ARhoA", p), variable_index(mt, "ARhoUA", p),
          variable_index(mt, "ARhoEA", p)} : p \in Range(phases(mt))}
    \cup (IF mt = "TwoPhase" THEN {variable_index(mt, "AA1", 0)} ELSE {})

\* the mass of the mesh: the sum over cells and quadrature points of
\* (sum of the shape values)^2 * JxW
RECURSIVE MeshMass(_)
MeshMass(n) ==
  IF n = 0 THEN 0
  ELSE LET e == (n - 1) \div NQuad
           q == (n - 1) % NQuad
           s == SumTo([k \in 0 .. n_dof_per_cell_per_var - 1 |-> phi[k][q]],
                      n_dof_per_cell_per_var)
       IN s * s * JxW[e][q] + MeshMass(n - 1)

\* C10: computeMassMatrix accumulates the arhoA, arhouA and arhoEA blocks of exactly
\* the phases of the model (phase 0 for a one-phase model, phases 0 and 1 otherwise)
\* and the volume-fraction block exactly for the two-phase model: the variable indices
\* that received a contribution are those and no other; no entry couples two different
\* variables; every block holds the same node-by-node values (one accumulation rule),
\* and each sums to the mass of the mesh.
C10_MassMatrixBlocks ==
  MassMatrixSet =>
    LET nv == n_var(model_type)
        touched == {v \in 0 .. nv - 1 :
                      \E k \in 0 .. n_node - 1 : M[i(model_type, k, v)][i(model_type, k, v)] # 0}
    IN /\ touched = ExpectedBlocks(model_type)
       /\ Cardinality(ExpectedBlocks(model_type))
            = 3 * Len(phases(model_type)) + (IF model_type = "TwoPhase" THEN 1 ELSE 0)
       /\ \A r, c \in DOFs(model_type) : r % nv # c % nv => M[r][c] = 0
       /\ \A v \in ExpectedBlocks(model_type) : \A k, l \in 0 .. n_node - 1 :
            M[i(model_type, k, v)][i(model_type, l, v)]
              = M[i(model_type, k, variable_index(model_type, "ARhoA", 0))]
                 [i(model_type, l, variable_index(model_type, "ARhoA", 0))]
       /\ \A v \in ExpectedBlocks(model_type) :
            SumTo([k \in 0 .. n_node - 1 |-> RowSum(M, i(model_type, k, v))], n_node)
              = MeshMass(NCell * NQuad)

\* a consistent mass matrix of the model with two phases and no volume-fraction equation
C10_Witness ==
  /\ MassMatrixSet
  /\ model_type = "TwoPhaseNonInteracting"
  /\ ~lump_mass_matrix
  /\ M[i(model_type, 0, 3)][i(model_type, 1, 3)] # 0

-----------------------------------------------------------------------------
(* Properties of the transient system and of the strong constraints (checked under *)
(* SpecTransient)                                                                  *)

\* C4 as stated: whatever was called since performTransientSetup, a call of
\* assembleTransientSystem(U, U_old) returns (M0 (U - U_old), M0), M0 being the matrix
\* computeMassMatrix produced, and invokes no constraint operation
C4_MassMatrixImmutable ==
  entry = "assembleTransientSystem" =>
    LET M0 == computeMassMatrix(model_type, lump_mass_matrix) IN
    /\ HeldMatrix = M0
    /\ M_dU = matmul(M0, dU)
    /\ calls = <<>>

ConstraintEntryPoints ==
  {"applyConstraintsToNonlinearSystem", "applyConstraintsToLinearSystemMatrix",
   "applyConstraintsToLinearSystemRHSVector"}

\* the operations of a boundary condition and of a junction each entry point is to invoke
BCOpOf(e) ==
  CASE e = "applyConstraintsToNonlinearSystem" -> "bc.applyStrongBCNonlinearSystem"
    [] e = "applyConstraintsToLinearSystemMatrix" -> "bc.applyStrongBCLinearSystemMatrix"
    [] e = "applyConstraintsToLinearSystemRHSVector" -> "bc.applyStrongBCLinearSystemRHSVector"

JunctionOpOf(e) ==
  CASE e = "applyConstraintsToNonlinearSystem" -> "junction.applyStronglyToNonlinearSystem"
    [] e = "applyConstraintsToLinearSystemMatrix" -> "junction.applyStronglyToLinearSystemMatrix"
    [] e = "applyConstraintsToLinearSystemRHSVector" -> "junction.applyStronglyToLinearSystemRHSVector"

C5_CallsInOrder ==
  entry \in ConstraintEntryPoints =>
    /\ Len(calls) = Len(bcs) + Len(junctions)
    /\ \A n \in 1 .. Len(bcs) : calls[n] = Call(BCOpOf(entry), n, -1)
    /\ \A n \in 1 .. Len(junctions) : calls[Len(bcs) + n] = Call(JunctionOpOf(entry), n, -1)

\* C5: each strong-constraint entry point invokes its own operation of every boundary
\* condition, in list order, then its own operation of every junction, in list order,
\* each exactly once and nothing else; a call of the matrix entry point leaves the
\* right-hand side vector as it was, and a call of the right-hand side entry point
\* leaves every matrix as it was.
C5_ConstraintEntryPoints ==
  /\ []C5_CallsInOrder
  /\ [][/\ ApplyConstraintsToLinearSystemMatrix => b' = b /\ M_dU' = M_dU
        /\ ApplyConstraintsToLinearSystemRHSVector => A' = A /\ M' = M]_vars

\* the matrix entry point has run over two boundary conditions and two junctions
C5_Witness ==
  /\ entry = "applyConstraintsToLinearSystemMatrix"
  /\ Len(bcs) = 2
  /\ Len(junctions) = 2

StrongAt(list, d) == {n \in 1 .. Len(list) : list[n].strong /\ list[n].dof = d}

Last(S) == CHOOSE n \in S : \A m \in S : m <= n

\* the DOFs a strong boundary condition and a strong junction both constrain
ContestedDOFs == {d \in DOFs(model_type) : StrongAt(bcs, d) # {} /\ StrongAt(junctions, d) # {}}

\* the value left at DOF d by the last entry point is v
LeftAt(d, v) ==
  /\ entry \in {"applyConstraintsToNonlinearSystem", "applyConstraintsToLinearSystemRHSVector"}
       => b[d] = v
  /\ entry \in {"applyConstraintsToNonlinearSystem", "applyConstraintsToLinearSystemMatrix"}
       => \A c \in DOFs(model_type) : HeldMatrix[d][c] = IF c = d THEN v ELSE 0

\* C6 as stated: where a strong boundary condition and a strong junction constrain the
\* same DOF, the row/value an applyConstraints* call leaves is the boundary condition's
C6_BoundaryConditionWins ==
  entry \in ConstraintEntryPoints =>
    \A d \in ContestedDOFs : LeftAt(d, BCValue(Last(StrongAt(bcs, d))))

\* C6 amended: the junctions are applied after the boundary conditions, so where a
\* strong boundary condition and a strong junction constrain the same DOF the
\* row/value an applyConstraints* call leaves is the one set by the junction (the last
\* such junction of the list); a boundary condition's row/value is left only at a DOF
\* no strong junction constrains.
C6_JunctionWins ==
  entry \in ConstraintEntryPoints =>
    /\ \A d \in ContestedDOFs : LeftAt(d, JunctionValue(Last(StrongAt(junctions, d))))
    /\ \A d \in DOFs(model_type) :
         (StrongAt(bcs, d) # {} /\ StrongAt(junctions, d) = {})
           => LeftAt(d, BCValue(Last(StrongAt(bcs, d))))

\* the right-hand side entry point has run with a strong boundary condition and a
\* strong junction at the same DOF, and a boundary condition alone at another
C6_Witness ==
  /\ entry = "applyConstraintsToLinearSystemRHSVector"
  /\ ContestedDOFs # {}
  /\ \E d \in DOFs(model_type) : StrongAt(bcs, d) # {} /\ StrongAt(junctions, d) = {}

-----------------------------------------------------------------------------
(* Properties of the closures (checked under SpecClosure) *)

ClosureKinds == {"SoundSpeed", "Pressure"}

\* der[dep][x], 0 where the dependency has no entry for x
ChainTerm(dep, x) == IF x \in DOMAIN der[dep] THEN der[dep][x] ELSE Whole(0)

\* v depends on (vf1, arho) and e on (arho, arhou, arhoE)
ClosuresAsTested ==
  /\ DOMAIN der["v"] = {"vf1", "arho"}
  /\ DOMAIN der["e"] = {"arho", "arhou", "arhoE"}

\* the value of the tested quantity when root variable x is one unit larger, v and e
\* being linear in x
ValueWithUnitChange(x) ==
  ApplyFunction(test_aux.c_function, Plus(data["v"], ChainTerm("v", x)),
                Plus(data["e"], ChainTerm("e", x)))[1]

\* C11: once SoundSpeed.compute (or the tested Pressure's) has returned, der[c] has
\* exactly the keys vf1, arho, arhou, arhoE and, with v depending on (vf1, arho) and e
\* on (arho, arhou, arhoE), each der[c][x] is dc/dv * der[v][x] + dc/de * der[e][x] (a
\* term being absent where the dependency has no entry for x), which for these linear
\* closures is the exact change of c per unit change of x.
C11_ChainRuleDerivatives ==
  (calls # <<>> /\ raised = NoError) =>
    LET name == test_aux.name
        f    == test_aux.c_function
    IN /\ name \in DOMAIN der
       /\ DOMAIN der[name] = Range(root_vars)
       /\ ClosuresAsTested =>
            \A x \in Range(root_vars) :
              /\ der[name][x] = Plus(Times(f.v_slope, ChainTerm("v", x)),
                                     Times(f.e_slope, ChainTerm("e", x)))
              /\ der[name][x] = Minus(ValueWithUnitChange(x), data[name])

\* the tester's pressure has computed on the contexts of the tester's v and e:
\* dp/darho = 2 * 3 + 3 * 2.5
C11_Witness ==
  /\ test_aux = pressure_aux
  /\ calls # <<>>
  /\ raised = NoError
  /\ der["v"] = Dict(v_aux.other_vars, v_aux.coefs)
  /\ der["e"] = Dict(e_aux.other_vars, e_aux.coefs)
  /\ der["p"]["arho"] = Fraction(27, 2)

-----------------------------------------------------------------------------
(* Properties of the auxiliary loop (checked under SpecAux) *)

\* the position in aux_list of the auxiliary whose compute was called last
LastComputed == Len(calls) - 1

\* a dependency of the closures has no (complete) entry in the derivative context
MissingDerivative ==
  \/ {"v", "e"} \ DOMAIN der # {}
  \/ {"vf1", "arho"} \ DOMAIN der["v"] # {}
  \/ {"arho", "arhou", "arhoE"} \ DOMAIN der["e"] # {}

\* the context a KeyError names lacks the key
KeyIsMissing(err) ==
  CASE err[2] = "data"   -> err[3] \notin DOMAIN data
    [] err[2] = "der"    -> err[3] \notin DOMAIN der
    [] err[2] = "der[v]" -> err[3] \notin DOMAIN der["v"]
    [] err[2] = "der[e]" -> err[3] \notin DOMAIN der["e"]

\* the failing compute is the last operation of the assembly: no later auxiliary, no
\* kernel, no scatter-add, and control is with the caller of the entry point
FailurePropagates ==
  LET n == LastComputed IN
  /\ pc = "raised"
  /\ n \in 1 .. Len(aux_list)
  /\ calls[n + 1] = Call("aux.compute", n, elem)
  /\ \A m \in 1 .. Len(calls) : calls[m].op # "kernel.apply"
  /\ rJ_cell = <<>>
  /\ rJ = <<>>

\* a closure's compute that met a missing derivative entry has raised
MissingDerivativeRaises ==
  \A n \in 1 .. Len(aux_list) :
    (n <= LastComputed /\ aux_list[n].kind \in ClosureKinds /\ MissingDerivative)
      => raised # NoError

\* a compute that raises writes no derivative entry
RaisingComputeWritesNoDerivative == (AuxCompute /\ raised' # NoError) => der' = der

\* the compute of a closure (SoundSpeed, Pressure) has raised, a dependency having no
\* (complete) entry in the derivative context
ClosureFailed ==
  /\ raised # NoError
  /\ aux_list[LastComputed].kind \in ClosureKinds
  /\ MissingDerivative

FailedAtDerivativeLookup ==
  ClosureFailed =>
    /\ raised[1] = "KeyError"
    /\ raised[2] \in {"der", "der[v]", "der[e]"}
    /\ KeyIsMissing(raised)
    /\ FailurePropagates

FailedAtFirstMissingLookup ==
  ClosureFailed =>
    /\ raised[1] = "KeyError"
    /\ KeyIsMissing(raised)
    /\ raised[2] = "data" <=> {"v", "e"} \ DOMAIN data # {}
    /\ raised[2] = "data" <=> aux_list[LastComputed].name \notin DOMAIN data
    /\ FailurePropagates

\* C12 as stated: a compute (SoundSpeed.compute) that reads a dependency with no entry
\* in the derivative context fails with a missing-key error at that derivative-context
\* lookup, writes no derivative entry, no later auxiliary or kernel runs and the
\* failure propagates to the caller
C12_FailsAtDerivativeLookup ==
  /\ [](MissingDerivativeRaises /\ FailedAtDerivativeLookup)
  /\ [][RaisingComputeWritesNoDerivative]_vars

\* C12 amended: a compute (SoundSpeed.compute) that reads a dependency with no entry
\* in the derivative context fails with a missing-key error at the first lookup that
\* misses: the data-context lookup when the dependency's value is absent too (the
\* quantity was never computed), nothing having been written, and otherwise the
\* derivative-context lookup, the auxiliary's value having been written to the data
\* context already; in both cases no derivative entry is written, no later auxiliary
\* or kernel of the assembly runs and the failure propagates to the caller.
C12_FailsAtFirstMissingLookup ==
  /\ [](MissingDerivativeRaises /\ FailedAtFirstMissingLookup)
  /\ [][RaisingComputeWritesNoDerivative]_vars

\* SoundSpeed.compute has failed on der[v], after it wrote its value, with the
\* pressure still to compute
C12_Witness ==
  /\ raised = KeyError("der[v]", "vf1")
  /\ "c" \in DOMAIN data
  /\ aux_list[LastComputed].kind = "SoundSpeed"
  /\ LastComputed < Len(aux_list)

-----------------------------------------------------------------------------
(* Order of the steps of a cell in addVolumetricTerms (checked under Spec) *)

NodalOps == {"getLocalNodalSolution", "nodal_aux.compute", "interp_aux.compute"}

\* the operations on cells among the calls of the entry point, in order
VolumetricCalls == SelectSeq(calls, LAMBDA c : c.elem >= 0)

\* one call per element of list, in list order
InListOrder(op, list, e) == [n \in 1 .. Len(list) |-> [op |-> op, idx |-> n, elem |-> e]]

Single(op, e) == <<[op |-> op, idx |-> 0, elem |-> e]>>

\* the steps of cell e before its elemental solution extraction
GroupFEMSteps(e) ==
  IF group_fem
  THEN Single("getLocalNodalSolution", e)
         \o InListOrder("nodal_aux.compute", nodal_aux_list, e)
         \o InListOrder("interp_aux.compute", group_fem_interp_aux_list, e)
  ELSE <<>>

ElementalSteps(e) ==
  Single("computeLocalCellSolution", e) \o InListOrder("aux.compute", aux_list, e)

KernelSteps(e) ==
  InListOrder("kernel.apply", fem_kernels, e)
    \o Single("aggregateLocalCellVector", e) \o Single("aggregateLocalCellMatrix", e)

RECURSIVE CellsBefore(_)
\* all the steps of the cells 0 .. e - 1
CellsBefore(e) ==
  IF e = 0 THEN <<>>
  ELSE CellsBefore(e - 1) \o GroupFEMSteps(e - 1) \o ElementalSteps(e - 1) \o KernelSteps(e - 1)

\* the steps of the current cell that precede the current position
StepsOfCurrentCell ==
  CASE pc = "elemental" -> GroupFEMSteps(elem)
    [] pc = "kernels"   -> GroupFEMSteps(elem) \o ElementalSteps(elem)
    [] OTHER            -> <<>>

\* the contributions of the kernels of one cell to its local residual and Jacobian
KernelContributions == [n \in 1 .. Len(fem_kernels) |-> [src |-> "kernel", idx |-> n]]

\* C13: within addVolumetricTerms the steps of every cell run in this order: (group
\* FEM only) nodal solution extraction, every nodal auxiliary in list order, every
\* interpolated auxiliary in list order; elemental solution extraction; every
\* elemental auxiliary in list order; every kernel in list order on a zeroed local
\* residual and Jacobian; the scatter-add into r and J, which completes before any
\* step of the next cell.  No kernel is applied for a cell before all of its
\* auxiliaries have computed, and without group FEM no nodal or interpolated
\* auxiliary is ever evaluated.
C13_CellStepsInOrder ==
  /\ VolumetricCalls = CellsBefore(elem) \o StepsOfCurrentCell
  /\ pc = "kernels" => rJ_cell = <<>>
  /\ (pc = "loop" /\ elem > 0) => rJ_cell = KernelContributions
  /\ pc \in {"loop", "group_fem", "elemental", "kernels"}
       => rJ = [n \in 1 .. elem |-> [src |-> "cell", idx |-> n - 1]]
  /\ \A n \in 1 .. Len(calls) :
       /\ calls[n].op = "kernel.apply" =>
            \A k \in 1 .. Len(aux_list) :
              \E m \in 1 .. n - 1 : calls[m] = [op |-> "aux.compute", idx |-> k, elem |-> calls[n].elem]
       /\ ~group_fem => calls[n].op \notin NodalOps

\* the last cell of a group-FEM assembly has been scattered into r and J
C13_Witness ==
  /\ pc = "loop"
  /\ elem = NCell
  /\ group_fem
  /\ Len(nodal_aux_list) > Len(aux_list)
  /\ Len(fem_kernels) > 1

-----------------------------------------------------------------------------
(* Consistency of the lists built at construction (checked under Spec) *)

DirectAdvectionNames ==
  {"MassAdvection", "MomentumAdvection", "MomentumAreaGradient", "EnergyAdvection"}

StabilizationKernelNames == {k.name : k \in UNION {Range(st.kernels) : st \in Stabilizations}}

SourceKernelNames == {k.name : k \in UNION {Range(l) : l \in SourceKernelLists}}

\* the positions of fem_kernels holding a kernel with one of the names
KernelsNamed(names) == {n \in 1 .. Len(fem_kernels) : fem_kernels[n].name \in names}

AdvectionNames == DirectAdvectionNames \cup {"InterpolatedAdvection"}

\* the auxiliaries of the interpolated list whose variable is name
InterpolatedAuxNamed(name) ==
  {n \in 1 .. Len(group_fem_interp_aux_list) : group_fem_interp_aux_list[n].name = name}

PhaseSet == Range(phases(model_type))

\* with group FEM three InterpolatedAdvection kernels per phase and no direct kernel,
\* each on an aux_name of exactly one interpolated auxiliary with a derivative entry;
\* without group FEM the four direct kernels per phase, no InterpolatedAdvection kernel
\* and empty nodal and interpolated lists
AdvectionKernelsConsistent ==
  /\ group_fem =>
       /\ Cardinality(KernelsNamed({"InterpolatedAdvection"})) = 3 * Cardinality(PhaseSet)
       /\ \A p \in PhaseSet :
            Cardinality({n \in KernelsNamed({"InterpolatedAdvection"}) :
                           fem_kernels[n].phase = p}) = 3
       /\ KernelsNamed(DirectAdvectionNames) = {}
       /\ Len(group_fem_interp_aux_list) = 3 * Cardinality(PhaseSet)
       /\ \A n \in KernelsNamed({"InterpolatedAdvection"}) :
            /\ Cardinality(InterpolatedAuxNamed(fem_kernels[n].aux_name)) = 1
            /\ n_call > 0 => fem_kernels[n].aux_name \in DOMAIN der
  /\ ~group_fem =>
       /\ \A p \in PhaseSet, name \in DirectAdvectionNames :
            Cardinality({n \in KernelsNamed({name}) : fem_kernels[n].phase = p}) = 1
       /\ Cardinality(KernelsNamed(DirectAdvectionNames)) = 4 * Cardinality(PhaseSet)
       /\ KernelsNamed({"InterpolatedAdvection"}) = {}
       /\ nodal_aux_list = <<>>
       /\ group_fem_interp_aux_list = <<>>

\* fem_kernels is made of consecutive segments, Segment(k) being the segment of
\* kernel k (1, 2, ...), 0 for a kernel that belongs to none
InSegments(Segment(_)) ==
  /\ \A n \in 1 .. Len(fem_kernels) : Segment(fem_kernels[n]) > 0
  /\ \A m, n \in 1 .. Len(fem_kernels) :
       m < n => Segment(fem_kernels[m]) <= Segment(fem_kernels[n])

\* advection kernels, then stabilization kernels, then source kernels
SegmentAsStated(k) ==
  CASE k.name \in AdvectionNames -> 1
    [] k.name \in StabilizationKernelNames -> 2
    [] k.name \in SourceKernelNames -> 3
    [] OTHER -> 0

\* advection kernels, then phase-interaction kernels, then stabilization kernels, then
\* source kernels
SegmentWithInteraction(k) ==
  CASE k.name \in AdvectionNames -> 1
    [] k.name \in InteractionKernelNames -> 2
    [] k.name \in StabilizationKernelNames -> 3
    [] k.name \in SourceKernelNames -> 4
    [] OTHER -> 0

\* C14 as stated: the lists built at construction are consistent for every
\* configuration (three InterpolatedAdvection kernels per phase with group FEM, each
\* on the variable of exactly one interpolated auxiliary with a derivative entry; the
\* four direct kernels per phase and empty nodal and interpolated lists without), and
\* in both modes the kernel list is advection kernels, then stabilization kernels,
\* then source kernels
C14_AdvectionStabilizationSource ==
  /\ AdvectionKernelsConsistent
  /\ InSegments(SegmentAsStated)

\* C14 amended: the lists built at construction are consistent for every
\* configuration.  With group FEM the per-phase advection kernels are three
\* InterpolatedAdvection kernels per phase and no direct advection kernel, each
\* consuming an aux_name that is the variable of exactly one auxiliary of the
\* interpolated list (three per phase) and that the elemental derivative context of an
\* assembly has an entry for.  Without group FEM they are the four direct kernels per
\* phase, there is no InterpolatedAdvection kernel, and the nodal and interpolated
\* auxiliary lists are empty.  In both modes the kernel list is the per-phase
\* advection kernels, then (only for a model with phase interaction) the five
\* phase-interaction kernels, then stabilization kernels, then source kernels.
C14_ListsConsistent ==
  /\ AdvectionKernelsConsistent
  /\ InSegments(SegmentWithInteraction)
  /\ Cardinality(KernelsNamed(InteractionKernelNames))
       = IF phase_interaction(model_type) THEN 5 ELSE 0

\* an assembly of a two-phase group-FEM configuration with a stabilization kernel and
\* a source kernel has allocated its derivative context
C14_Witness ==
  /\ group_fem
  /\ Cardinality(PhaseSet) = 2
  /\ n_call > 0
  /\ KernelsNamed(StabilizationKernelNames) # {}
  /\ KernelsNamed(SourceKernelNames) # {}
  /\ "inviscflux_arhoEA2" \in DOMAIN der

====
